---- MODULE Spec2Model ----
(***************************************************************************)
(* Model of client/src-tauri/src/lib.rs: the greet command and the        *)
(* "check_updates" menu-event handler, which spawns one background task   *)
(* (an update flow) per click.  Text is modelled as sequences of           *)
(* one-character strings so that format! is computed, not assumed.         *)
(***************************************************************************)
EXTENDS Integers, Sequences, FiniteSets, TLC

VARIABLES
    flows,        \* the spawned background tasks, in spawn order
    uiWaitsFor,   \* 0: the menu-event handler has returned; i: it waits for flow i
    clicks,       \* number of "check_updates" menu events handled so far
    ignored,      \* number of menu events with any other identifier handled so far
    overlapped,   \* TRUE iff the last menu event was handled while a flow was blocked
    greetArg,     \* argument of the last greet invocation
    greetRet,     \* <<>> before any invocation, else <<returned string>>
    setup         \* the setup closure's position and what it has built; the app's state

vars == <<flows, uiWaitsFor, clicks, ignored, overlapped, greetArg, greetRet, setup>>

----------------------------------------------------------------------------
(* Bounds *)

MaxEvents == 2

MaxNameLen == 3

----------------------------------------------------------------------------
(* Input domains *)

\* Menu-event identifiers delivered by the framework.
MenuIds == {"check_updates", "check_update", "quit"}

\* Display forms of the errors the updater plugin can return.
Reasons == {<<"4", "0", "4">>, <<"{", "}">>}

\* Version strings of available updates.
Versions == {<<"2", ".", "0", ".", "0">>, <<"{", "{", "3">>}

\* Characters of greet's argument.
NameChars == {"A", " ", "{", "}", "%"}

Names == UNION {[1..n -> NameChars] : n \in 0..MaxNameLen}

----------------------------------------------------------------------------
(* format! *)

IsBrace(c) == c \in {"{", "}"}

\* First position from i on that holds a brace, Len(tpl) + 1 if there is none.
NextBrace(tpl, i) ==
    LET hits == {j \in i..Len(tpl) : IsBrace(tpl[j])} IN
    IF hits = {} THEN Len(tpl) + 1
    ELSE CHOOSE j \in hits : \A h \in hits : j <= h

\* Expansion of a format template from position i on: "{}" takes the next
\* argument verbatim, "{{" and "}}" are escaped braces, all other text is
\* copied (a run of literal text in one piece).
RECURSIVE FormatFrom(_, _, _, _)
FormatFrom(tpl, i, args, k) ==
    IF i > Len(tpl) THEN <<>>
    ELSE IF ~IsBrace(tpl[i])
        THEN SubSeq(tpl, i, NextBrace(tpl, i) - 1)
             \o FormatFrom(tpl, NextBrace(tpl, i), args, k)
    ELSE IF i < Len(tpl) /\ tpl[i] = "{" /\ tpl[i + 1] = "}"
        THEN (IF k <= Len(args) THEN args[k] ELSE <<>>)
             \o FormatFrom(tpl, i + 2, args, k + 1)
    ELSE IF i < Len(tpl) /\ tpl[i] = "{" /\ tpl[i + 1] = "{"
        THEN <<"{">> \o FormatFrom(tpl, i + 2, args, k)
    ELSE IF i < Len(tpl) /\ tpl[i] = "}" /\ tpl[i + 1] = "}"
        THEN <<"}">> \o FormatFrom(tpl, i + 2, args, k)
    ELSE <<tpl[i]>> \o FormatFrom(tpl, i + 1, args, k)

Format(tpl, args) == FormatFrom(tpl, 1, args, 1)

----------------------------------------------------------------------------
(* greet *)

GreetTemplate ==
    <<"H", "e", "l", "l", "o", ",", " ", "{", "}", "!", " ", "Y", "o", "u",
      "'", "v", "e", " ", "b", "e", "e", "n", " ", "g", "r", "e", "e", "t",
      "e", "d", " ", "f", "r", "o", "m", " ", "R", "u", "s", "t", "!">>

\* A greet that splices the name into the template before formatting.
greet_Reformat(name) ==
    Format(SubSeq(GreetTemplate, 1, 7) \o name
           \o SubSeq(GreetTemplate, 10, Len(GreetTemplate)), <<>>)

greet(name) == Format(GreetTemplate, <<name>>)

----------------------------------------------------------------------------
(* Dialogs: MessageDialogBuilder defaults are kind Info and buttons Ok. *)

AvailableTemplate ==
    <<"V", "e", "r", "s", "i", "o", "n", " ", "{", "}", " ", "i", "s", " ",
      "a", "v", "a", "i", "l", "a", "b", "l", "e", ".", " ", "W", "o", "u",
      "l", "d", " ", "y", "o", "u", " ", "l", "i", "k", "e", " ", "t", "o",
      " ", "i", "n", "s", "t", "a", "l", "l", " ", "i", "t", " ", "n", "o",
      "w", "?">>

InstallErrorTemplate ==
    <<"F", "a", "i", "l", "e", "d", " ", "t", "o", " ", "i", "n", "s", "t",
      "a", "l", "l", " ", "u", "p", "d", "a", "t", "e", ":", " ", "{", "}">>

CompleteMessage ==
    <<"U", "p", "d", "a", "t", "e", " ", "i", "n", "s", "t", "a", "l", "l",
      "e", "d", ".", " ", "P", "l", "e", "a", "s", "e", " ", "r", "e", "s",
      "t", "a", "r", "t", " ", "t", "h", "e", " ", "a", "p", "p", "l", "i",
      "c", "a", "t", "i", "o", "n", ".">>

NoUpdatesMessage ==
    <<"Y", "o", "u", "'", "r", "e", " ", "r", "u", "n", "n", "i", "n", "g",
      " ", "t", "h", "e", " ", "l", "a", "t", "e", "s", "t", " ", "v", "e",
      "r", "s", "i", "o", "n", ".">>

CheckErrorTemplate ==
    <<"F", "a", "i", "l", "e", "d", " ", "t", "o", " ", "c", "h", "e", "c",
      "k", " ", "f", "o", "r", " ", "u", "p", "d", "a", "t", "e", "s", ":",
      " ", "{", "}">>

UnavailableTemplate ==
    <<"U", "p", "d", "a", "t", "e", "r", " ", "n", "o", "t", " ", "a", "v",
      "a", "i", "l", "a", "b", "l", "e", ":", " ", "{", "}">>

UpdateAvailableDialog(version) ==
    [title |-> "Update Available", kind |-> "Info", buttons |-> "OkCancel",
     message |-> Format(AvailableTemplate, <<version>>)]

InstallErrorDialog(e) ==
    [title |-> "Update Error", kind |-> "Error", buttons |-> "Ok",
     message |-> Format(InstallErrorTemplate, <<e>>)]

UpdateCompleteDialog ==
    [title |-> "Update Complete", kind |-> "Info", buttons |-> "Ok",
     message |-> CompleteMessage]

NoUpdatesDialog ==
    [title |-> "No Updates", kind |-> "Info", buttons |-> "Ok",
     message |-> NoUpdatesMessage]

\* A check-error dialog that drops the failure reason.
CheckErrorDialog_NoReason(e) ==
    [title |-> "Update Error", kind |-> "Error", buttons |-> "Ok",
     message |-> SubSeq(CheckErrorTemplate, 1, 27)]

CheckErrorDialog(e) ==
    [title |-> "Update Error", kind |-> "Error", buttons |-> "Ok",
     message |-> Format(CheckErrorTemplate, <<e>>)]

\* An updater-unavailable dialog with a title of its own.
UpdaterUnavailableDialog_OwnTitle(e) ==
    [title |-> "Updater Unavailable", kind |-> "Error", buttons |-> "Ok",
     message |-> Format(UnavailableTemplate, <<e>>)]

UpdaterUnavailableDialog(e) ==
    [title |-> "Update Error", kind |-> "Error", buttons |-> "Ok",
     message |-> Format(UnavailableTemplate, <<e>>)]

----------------------------------------------------------------------------
(* One update flow: the async block spawned by the menu-event handler *)

Pending == [tag |-> "Pending", val |-> <<>>]

UpdaterResults == {[tag |-> "Ok", val |-> <<>>]}
                  \cup {[tag |-> "Err", val |-> e] : e \in Reasons}

CheckResults == {[tag |-> "Some", val |-> v] : v \in Versions}
                \cup {[tag |-> "None", val |-> <<>>]}
                \cup {[tag |-> "Err", val |-> e] : e \in Reasons}

InstallResults == {[tag |-> "Ok", val |-> <<>>]}
                  \cup {[tag |-> "Err", val |-> e] : e \in Reasons}

\* The task as spawned: nothing has run yet.
NewFlow ==
    [pc |-> "spawned", updater |-> Pending, check |-> Pending,
     confirmed |-> <<>>, install |-> Pending, dialogs |-> <<>>,
     acquires |-> 0, checks |-> 0, installs |-> 0]

\* blocking_show: the dialog is shown and the task blocks at pc.
Show(f, dialog, pc) ==
    [f EXCEPT !.dialogs = Append(@, dialog), !.pc = pc]

\* An acquisition that swallows the error and goes on to check.
AcquireStep_IgnoreErr(f, r) ==
    [f EXCEPT !.updater = r, !.acquires = @ + 1, !.checks = @ + 1,
              !.pc = "checking"]

\* app_handle.updater(): Ok starts updater.check(), Err shows the dialog.
AcquireStep(f, r) ==
    LET g == [f EXCEPT !.updater = r, !.acquires = @ + 1] IN
    IF r.tag = "Ok"
        THEN [g EXCEPT !.checks = @ + 1, !.pc = "checking"]
        ELSE Show(g, UpdaterUnavailableDialog(r.val), "dlg_unavailable")

\* A check that ends silently when no update is available.
CheckStep_SilentNone(f, r) ==
    LET g == [f EXCEPT !.check = r] IN
    CASE r.tag = "Some" -> Show(g, UpdateAvailableDialog(r.val), "dlg_available")
      [] r.tag = "None" -> [g EXCEPT !.pc = "done"]
      [] OTHER -> Show(g, CheckErrorDialog(r.val), "dlg_check_error")

\* A check that starts the install at once when an update is available.
CheckStep_NoConfirm(f, r) ==
    LET g == [f EXCEPT !.check = r] IN
    CASE r.tag = "Some" -> [g EXCEPT !.installs = @ + 1, !.pc = "installing"]
      [] r.tag = "None" -> Show(g, NoUpdatesDialog, "dlg_no_updates")
      [] OTHER -> Show(g, CheckErrorDialog(r.val), "dlg_check_error")

\* updater.check() returns: the three arms of the match.
CheckStep(f, r) ==
    LET g == [f EXCEPT !.check = r] IN
    CASE r.tag = "Some" -> Show(g, UpdateAvailableDialog(r.val), "dlg_available")
      [] r.tag = "None" -> Show(g, NoUpdatesDialog, "dlg_no_updates")
      [] OTHER -> Show(g, CheckErrorDialog(r.val), "dlg_check_error")

\* A confirmation whose answer is not looked at.
ConfirmStep_IgnoreAnswer(f, b) ==
    [f EXCEPT !.confirmed = <<b>>, !.installs = @ + 1, !.pc = "installing"]

\* The "Update Available" dialog returns b: install if confirmed, else end.
ConfirmStep(f, b) ==
    LET g == [f EXCEPT !.confirmed = <<b>>] IN
    IF b THEN [g EXCEPT !.installs = @ + 1, !.pc = "installing"]
         ELSE [g EXCEPT !.pc = "done"]

\* An install result reported with the two arms exchanged.
InstallStep_Swapped(f, r) ==
    LET g == [f EXCEPT !.install = r] IN
    IF r.tag = "Err"
        THEN Show(g, UpdateCompleteDialog, "dlg_complete")
        ELSE Show(g, InstallErrorDialog(r.val), "dlg_install_error")

\* download_and_install returns: failure dialog or success dialog.
InstallStep(f, r) ==
    LET g == [f EXCEPT !.install = r] IN
    IF r.tag = "Err"
        THEN Show(g, InstallErrorDialog(r.val), "dlg_install_error")
        ELSE Show(g, UpdateCompleteDialog, "dlg_complete")

AckDialogs ==
    {"dlg_unavailable", "dlg_no_updates", "dlg_check_error",
     "dlg_install_error", "dlg_complete"}

\* An acknowledgement after which an error flow starts over.
AckStep_Retry(f) ==
    IF f.pc \in {"dlg_unavailable", "dlg_check_error", "dlg_install_error"}
        THEN [f EXCEPT !.pc = "spawned"]
        ELSE [f EXCEPT !.pc = "done"]

\* An acknowledge-only dialog returns: the match arm and the task end.
AckStep(f) == [f EXCEPT !.pc = "done"]

\* The task is blocked in an await or in blocking_show.
Blocked(f) == f.pc \in AckDialogs \cup {"checking", "dlg_available", "installing"}

----------------------------------------------------------------------------
(* The menu-event handler *)

\* A comparison that accepts every identifier.
IsCheckUpdates_Any(id) == TRUE

IsCheckUpdates(id) == id = "check_updates"

\* Running the task to completion on the calling thread.
Spawn_BlockOn(fs) ==
    [flows |-> Append(fs, NewFlow), waitsFor |-> Len(fs) + 1]

\* tauri::async_runtime::spawn: the task is queued, the JoinHandle dropped.
Spawn(fs) == [flows |-> Append(fs, NewFlow), waitsFor |-> 0]

\* A handler that spawns only when no flow is in progress.
HandleMenuEvent_SingleFlight(id, fs) ==
    IF IsCheckUpdates(id) /\ \A i \in DOMAIN fs : fs[i].pc = "done"
        THEN Spawn(fs)
        ELSE [flows |-> fs, waitsFor |-> 0]

HandleMenuEvent(id, fs) ==
    IF IsCheckUpdates(id) THEN Spawn(fs) ELSE [flows |-> fs, waitsFor |-> 0]

\* The event loop delivers an event only after the previous handler returned.
EventLoopFree ==
    IF uiWaitsFor = 0 THEN TRUE ELSE flows[uiWaitsFor].pc = "done"

----------------------------------------------------------------------------
(* The setup closure: 23 fallible steps, each ended by `?` *)

Item(v) == [op |-> "item", var |-> v, title |-> "", refs |-> <<>>]

SubmenuStep(v, title, refs) ==
    [op |-> "submenu", var |-> v, title |-> title, refs |-> refs]

AppItems ==
    <<"check_updates", "separator", "hide", "hide_others", "show_all",
      "separator2", "quit">>

EditItems ==
    <<"undo", "redo", "separator3", "cut", "copy", "paste", "select_all">>

WindowItems == <<"minimize", "fullscreen", "separator4", "close_window">>

MenuRefs == <<"app_submenu", "edit_submenu", "window_submenu">>

SetupProgram ==
    [k \in 1..7 |-> Item(AppItems[k])]
    \o <<SubmenuStep("app_submenu", "Angular Momentum", AppItems)>>
    \o [k \in 1..7 |-> Item(EditItems[k])]
    \o <<SubmenuStep("edit_submenu", "Edit", EditItems)>>
    \o [k \in 1..4 |-> Item(WindowItems[k])]
    \o <<SubmenuStep("window_submenu", "Window", WindowItems)>>
    \o <<[op |-> "menu", var |-> "menu", title |-> "", refs |-> MenuRefs]>>
    \o <<[op |-> "set_menu", var |-> "", title |-> "", refs |-> <<"menu">>]>>

\* A built submenu: its title and the items handed to Submenu::with_items.
Submenu(title, refs) == [title |-> title, items |-> refs]

\* The closure as entered: nothing built, nothing installed.
SetupStart ==
    [pc |-> 1, items |-> <<>>, submenus |-> <<>>, menu |-> <<>>,
     installed |-> <<>>, result |-> [tag |-> "Pending", val |-> <<>>],
     failures |-> 0, app |-> "starting"]

\* The step at s.pc returned Ok: its value is bound and the next step follows.
StepOk(s) ==
    LET st == SetupProgram[s.pc] IN
    CASE st.op = "item" ->
            [s EXCEPT !.items = Append(@, st.var), !.pc = @ + 1]
      [] st.op = "submenu" ->
            [s EXCEPT !.submenus = Append(@, Submenu(st.title, st.refs)),
                      !.pc = @ + 1]
      [] st.op = "menu" ->
            [s EXCEPT !.menu = <<s.submenus>>, !.pc = @ + 1]
      [] OTHER ->
            [s EXCEPT !.installed = s.menu, !.pc = @ + 1]

\* A step whose error is dropped, the step counting as done.
Propagate_Swallow(s, e) == StepOk(s)

\* `?` on Err(e): the closure returns Err(e) at once.
Propagate(s, e) == [s EXCEPT !.result = [tag |-> "Err", val |-> e]]

\* The state in which the app runs: every step done, Ok(()) returned.
SetupCompleted ==
    LET menu == <<Submenu("Angular Momentum", AppItems),
                  Submenu("Edit", EditItems),
                  Submenu("Window", WindowItems)>> IN
    [pc |-> Len(SetupProgram) + 1,
     items |-> AppItems \o EditItems \o WindowItems,
     submenus |-> menu, menu |-> <<menu>>, installed |-> <<menu>>,
     result |-> [tag |-> "Ok", val |-> <<>>],
     failures |-> 0, app |-> "running"]

----------------------------------------------------------------------------
(* Actions *)

Init ==
    /\ flows = <<>>
    /\ uiWaitsFor = 0
    /\ clicks = 0
    /\ ignored = 0
    /\ overlapped = FALSE
    /\ greetArg = <<>>
    /\ greetRet = <<>>
    /\ setup = SetupCompleted

OnMenuEvent(id) ==
    /\ setup.app = "running"
    /\ clicks + ignored < MaxEvents
    /\ EventLoopFree
    /\ LET h == HandleMenuEvent(id, flows) IN
        /\ flows' = h.flows
        /\ uiWaitsFor' = h.waitsFor
    /\ clicks' = IF id = "check_updates" THEN clicks + 1 ELSE clicks
    /\ ignored' = IF id = "check_updates" THEN ignored ELSE ignored + 1
    /\ overlapped' = \E i \in DOMAIN flows : Blocked(flows[i])
    /\ UNCHANGED <<greetArg, greetRet, setup>>

UpdaterAcquired(i) ==
    /\ i \in DOMAIN flows
    /\ flows[i].pc = "spawned"
    /\ \E r \in UpdaterResults :
        flows' = [flows EXCEPT ![i] = AcquireStep(@, r)]
    /\ UNCHANGED <<uiWaitsFor, clicks, ignored, overlapped, greetArg, greetRet, setup>>

CheckReturned(i) ==
    /\ i \in DOMAIN flows
    /\ flows[i].pc = "checking"
    /\ \E r \in CheckResults :
        flows' = [flows EXCEPT ![i] = CheckStep(@, r)]
    /\ UNCHANGED <<uiWaitsFor, clicks, ignored, overlapped, greetArg, greetRet, setup>>

ConfirmAnswered(i) ==
    /\ i \in DOMAIN flows
    /\ flows[i].pc = "dlg_available"
    /\ \E b \in BOOLEAN :
        flows' = [flows EXCEPT ![i] = ConfirmStep(@, b)]
    /\ UNCHANGED <<uiWaitsFor, clicks, ignored, overlapped, greetArg, greetRet, setup>>

InstallReturned(i) ==
    /\ i \in DOMAIN flows
    /\ flows[i].pc = "installing"
    /\ \E r \in InstallResults :
        flows' = [flows EXCEPT ![i] = InstallStep(@, r)]
    /\ UNCHANGED <<uiWaitsFor, clicks, ignored, overlapped, greetArg, greetRet, setup>>

DialogAcknowledged(i) ==
    /\ i \in DOMAIN flows
    /\ flows[i].pc \in AckDialogs
    /\ flows' = [flows EXCEPT ![i] = AckStep(@)]
    /\ UNCHANGED <<uiWaitsFor, clicks, ignored, overlapped, greetArg, greetRet, setup>>

FlowStep(i) ==
    \/ UpdaterAcquired(i)
    \/ CheckReturned(i)
    \/ ConfirmAnswered(i)
    \/ InstallReturned(i)
    \/ DialogAcknowledged(i)

Next ==
    \/ \E id \in MenuIds : OnMenuEvent(id)
    \/ \E i \in 1..MaxEvents : UpdaterAcquired(i)
    \/ \E i \in 1..MaxEvents : CheckReturned(i)
    \/ \E i \in 1..MaxEvents : ConfirmAnswered(i)
    \/ \E i \in 1..MaxEvents : InstallReturned(i)
    \/ \E i \in 1..MaxEvents : DialogAcknowledged(i)

Spec == Init /\ [][Next]_vars

\* Framework calls return and dialogs are answered.
FairSpec == Spec /\ \A i \in 1..MaxEvents : WF_vars(FlowStep(i))

InvokeGreet(name) ==
    /\ greetArg' = name
    /\ greetRet' = <<greet(name)>>
    /\ UNCHANGED <<flows, uiWaitsFor, clicks, ignored, overlapped, setup>>

GreetNext == \E name \in Names : InvokeGreet(name)

GreetSpec == Init /\ [][GreetNext]_vars

UnchangedApp ==
    UNCHANGED <<flows, uiWaitsFor, clicks, ignored, overlapped, greetArg, greetRet>>

SetupInSteps ==
    /\ setup.app = "starting"
    /\ setup.result.tag = "Pending"
    /\ setup.pc <= Len(SetupProgram)

SetupStepSucceeds ==
    /\ SetupInSteps
    /\ setup' = StepOk(setup)
    /\ UnchangedApp

SetupStepFails ==
    /\ SetupInSteps
    /\ \E e \in Reasons :
        setup' = [Propagate(setup, e) EXCEPT !.failures = @ + 1]
    /\ UnchangedApp

\* Ok(()) at the end of the closure.
SetupReturnsOk ==
    /\ setup.app = "starting"
    /\ setup.result.tag = "Pending"
    /\ setup.pc = Len(SetupProgram) + 1
    /\ setup' = [setup EXCEPT !.result = [tag |-> "Ok", val |-> <<>>]]
    /\ UnchangedApp

\* builder.run(..) enters the event loop after a successful setup.
RunStarts ==
    /\ setup.app = "starting"
    /\ setup.result.tag = "Ok"
    /\ setup' = [setup EXCEPT !.app = "running"]
    /\ UnchangedApp

\* builder.run(..) returns the setup error and .expect(..) panics.
RunAborts ==
    /\ setup.app = "starting"
    /\ setup.result.tag = "Err"
    /\ setup' = [setup EXCEPT !.app = "aborted"]
    /\ UnchangedApp

SetupInit ==
    /\ flows = <<>>
    /\ uiWaitsFor = 0
    /\ clicks = 0
    /\ ignored = 0
    /\ overlapped = FALSE
    /\ greetArg = <<>>
    /\ greetRet = <<>>
    /\ setup = SetupStart

SetupNext ==
    \/ SetupStepSucceeds
    \/ SetupStepFails
    \/ SetupReturnsOk
    \/ RunStarts
    \/ RunAborts

SetupSpec == SetupInit /\ [][SetupNext]_vars

----------------------------------------------------------------------------
TypeOK ==
    /\ uiWaitsFor \in 0..MaxEvents
    /\ clicks \in 0..MaxEvents
    /\ ignored \in 0..MaxEvents
    /\ overlapped \in BOOLEAN
    /\ Len(flows) <= MaxEvents
    /\ \A i \in DOMAIN flows :
        /\ flows[i].pc \in AckDialogs
               \cup {"spawned", "checking", "dlg_available", "installing", "done"}
        /\ flows[i].updater \in UpdaterResults \cup {Pending}
        /\ flows[i].check \in CheckResults \cup {Pending}
        /\ flows[i].install \in InstallResults \cup {Pending}
        /\ Len(flows[i].confirmed) <= 1

----------------------------------------------------------------------------
(* Expected texts, written out independently of the templates *)

TxtHello == <<"H", "e", "l", "l", "o", ",", " ">>

TxtGreeted ==
    <<"!", " ", "Y", "o", "u", "'", "v", "e", " ", "b", "e", "e", "n", " ",
      "g", "r", "e", "e", "t", "e", "d", " ", "f", "r", "o", "m", " ", "R",
      "u", "s", "t", "!">>

TxtUpdaterNotAvailable ==
    <<"U", "p", "d", "a", "t", "e", "r", " ", "n", "o", "t", " ", "a", "v",
      "a", "i", "l", "a", "b", "l", "e", ":", " ">>

TxtFailedToInstall ==
    <<"F", "a", "i", "l", "e", "d", " ", "t", "o", " ", "i", "n", "s", "t",
      "a", "l", "l", " ", "u", "p", "d", "a", "t", "e", ":", " ">>

\* s occurs in msg as a contiguous substring.
Contains(msg, s) ==
    \E k \in 1..(Len(msg) - Len(s) + 1) : SubSeq(msg, k, k + Len(s) - 1) = s

----------------------------------------------------------------------------
(* Claims *)

\* C1: in a flow where the updater was acquired, the check reported an
\* update and the user confirmed, download-and-install is attempted exactly
\* once; while it runs only the confirmation dialog has been shown, and once
\* it has returned exactly one result dialog follows: "Update Complete" on
\* success, "Update Error" / "Failed to install update: <e>" on failure.
C1_ConfirmedInstallsOnceOneResultDialog ==
    \A i \in DOMAIN flows :
        LET f == flows[i] IN
        (f.updater.tag = "Ok" /\ f.check.tag = "Some" /\ f.confirmed = <<TRUE>>) =>
            /\ f.installs = 1
            /\ f.dialogs[1].title = "Update Available"
            /\ f.install.tag = "Pending" =>
                (f.pc = "installing" /\ Len(f.dialogs) = 1)
            /\ f.install.tag = "Ok" =>
                /\ Len(f.dialogs) = 2
                /\ f.dialogs[2].title = "Update Complete"
                /\ f.dialogs[2].kind = "Info"
                /\ f.pc \in {"dlg_complete", "done"}
            /\ f.install.tag = "Err" =>
                /\ Len(f.dialogs) = 2
                /\ f.dialogs[2].title = "Update Error"
                /\ f.dialogs[2].kind = "Error"
                /\ f.dialogs[2].message = TxtFailedToInstall \o f.install.val
                /\ f.pc \in {"dlg_install_error", "done"}

\* Two finished confirmed flows, one whose install succeeded, one whose failed.
C1_Witness ==
    /\ Len(flows) = 2
    /\ flows[1].pc = "done" /\ flows[1].confirmed = <<TRUE>>
    /\ flows[1].install.tag = "Ok"
    /\ flows[2].pc = "done" /\ flows[2].confirmed = <<TRUE>>
    /\ flows[2].install.tag = "Err"

\* C2: in a flow where the user declined the "Update Available" dialog,
\* no download-and-install is attempted, no dialog follows the
\* confirmation dialog, and the flow has ended.
C2_DeclinedDoesNothingFurther ==
    \A i \in DOMAIN flows :
        LET f == flows[i] IN
        f.confirmed = <<FALSE>> =>
            /\ f.check.tag = "Some"
            /\ f.installs = 0
            /\ f.install = Pending
            /\ Len(f.dialogs) = 1
            /\ f.dialogs[1].title = "Update Available"
            /\ f.pc = "done"

\* A flow whose confirmation dialog was declined.
C2_Witness ==
    \E i \in DOMAIN flows :
        flows[i].confirmed = <<FALSE>> /\ flows[i].check.tag = "Some"

\* C3: in a flow where the updater was acquired and the check reported no
\* update, exactly one dialog is shown, the informational "No Updates"
\* dialog, and no download-and-install is attempted.
C3_NoUpdateOneInfoDialog ==
    \A i \in DOMAIN flows :
        LET f == flows[i] IN
        (f.updater.tag = "Ok" /\ f.check.tag = "None") =>
            /\ Len(f.dialogs) = 1
            /\ f.dialogs[1].title = "No Updates"
            /\ f.dialogs[1].kind = "Info"
            /\ f.dialogs[1].buttons = "Ok"
            /\ f.installs = 0
            /\ f.pc \in {"dlg_no_updates", "done"}

\* A finished flow whose check reported no update.
C3_Witness ==
    \E i \in DOMAIN flows :
        flows[i].check.tag = "None" /\ flows[i].pc = "done"

\* C4: in a flow where the updater was acquired and the check failed with
\* reason e, exactly one dialog is shown, an error-kind "Update Error"
\* dialog whose message contains e, and no download-and-install is attempted.
C4_CheckFailureOneErrorDialog ==
    \A i \in DOMAIN flows :
        LET f == flows[i] IN
        (f.updater.tag = "Ok" /\ f.check.tag = "Err") =>
            /\ Len(f.dialogs) = 1
            /\ f.dialogs[1].title = "Update Error"
            /\ f.dialogs[1].kind = "Error"
            /\ Contains(f.dialogs[1].message, f.check.val)
            /\ f.installs = 0
            /\ f.pc \in {"dlg_check_error", "done"}

\* A finished flow whose check failed with a reason made of braces.
C4_Witness ==
    \E i \in DOMAIN flows :
        /\ flows[i].check = [tag |-> "Err", val |-> <<"{", "}">>]
        /\ flows[i].pc = "done"

\* C5: in a flow where acquiring the updater failed with reason e, exactly
\* one dialog is shown, an error dialog with message
\* "Updater not available: <e>", and the flow performs no check, no
\* download-and-install and shows no further dialog.
C5_UnavailableOneErrorDialogThenStop ==
    \A i \in DOMAIN flows :
        LET f == flows[i] IN
        f.updater.tag = "Err" =>
            /\ Len(f.dialogs) = 1
            /\ f.dialogs[1].title = "Update Error"
            /\ f.dialogs[1].kind = "Error"
            /\ f.dialogs[1].message = TxtUpdaterNotAvailable \o f.updater.val
            /\ f.checks = 0 /\ f.check = Pending
            /\ f.installs = 0 /\ f.install = Pending
            /\ f.pc \in {"dlg_unavailable", "done"}

\* A finished flow whose updater acquisition failed.
C5_Witness ==
    \E i \in DOMAIN flows :
        /\ flows[i].updater = [tag |-> "Err", val |-> <<"4", "0", "4">>]
        /\ flows[i].pc = "done"

\* C6: a menu event whose identifier is not "check_updates" spawns no task
\* and leaves the flows, their dialogs and the event thread unchanged.
C6_OtherIdsIgnored ==
    [][\A id \in MenuIds \ {"check_updates"} :
          OnMenuEvent(id) => UNCHANGED <<flows, uiWaitsFor, clicks>>]_vars

\* An ignored event was handled while a flow had its dialog open.
C6_Witness ==
    /\ ignored = 1
    /\ overlapped
    /\ Len(flows) = 1
    /\ flows[1].pc = "dlg_available"

\* C7: whenever a flow is blocked in network I/O or in a modal dialog, the
\* menu-event handler has returned and the event loop can process a further
\* menu event.
C7_UiThreadNeverBlocked ==
    (\E i \in DOMAIN flows : Blocked(flows[i])) =>
        /\ uiWaitsFor = 0
        /\ clicks + ignored < MaxEvents => ENABLED OnMenuEvent("check_updates")

\* A click was handled while the first flow sat in its confirmation dialog,
\* and the second flow is now in its network check.
C7_Witness ==
    /\ overlapped
    /\ Len(flows) = 2
    /\ flows[1].pc = "dlg_available"
    /\ flows[2].pc = "checking"

ErrorDialogs == {"dlg_unavailable", "dlg_check_error", "dlg_install_error"}

\* C8: no retries: a flow acquires the updater, checks and installs at most
\* once each; acknowledging an error dialog ends the flow, an ended flow
\* does nothing more, and (framework calls returning, dialogs answered)
\* every started flow eventually ends.
C8_NoRetriesFlowsEnd ==
    /\ [](\A i \in DOMAIN flows :
            flows[i].acquires <= 1 /\ flows[i].checks <= 1 /\ flows[i].installs <= 1)
    /\ [][\A i \in DOMAIN flows :
            /\ flows[i].pc \in ErrorDialogs =>
                flows'[i] \in {flows[i], [flows[i] EXCEPT !.pc = "done"]}
            /\ flows[i].pc = "done" => flows'[i] = flows[i]]_vars
    /\ \A i \in 1..MaxEvents :
            (i \in DOMAIN flows) ~> (i \in DOMAIN flows /\ flows[i].pc = "done")

\* Two flows ended after their error dialogs: a failed check, a failed install.
C8_Witness ==
    /\ Len(flows) = 2
    /\ flows[1].pc = "done" /\ flows[1].check.tag = "Err"
    /\ flows[2].pc = "done" /\ flows[2].install.tag = "Err"

\* C9: every "check_updates" event spawns exactly one flow and none is
\* dropped or cancelled: the number of flows started equals the number of
\* clicks, whatever the earlier flows are doing.
C9_OneFlowPerClick ==
    /\ Len(flows) = clicks
    /\ \A i \in DOMAIN flows : flows[i].acquires = 1 \/ flows[i].pc = "spawned"

\* Two flows in progress at once, both showing "Update Available".
C9_Witness ==
    /\ clicks = 2
    /\ Len(flows) = 2
    /\ flows[1].pc = "dlg_available"
    /\ flows[2].pc = "dlg_available"

\* C10: greet(name) returns "Hello, " then name unchanged then
\* "! You've been greeted from Rust!", for every name, and touches
\* nothing else.
C10_GreetExact ==
    greetRet # <<>> =>
        /\ greetRet = <<TxtHello \o greetArg \o TxtGreeted>>
        /\ flows = <<>> /\ clicks = 0 /\ ignored = 0 /\ uiWaitsFor = 0

\* greet has returned for a name made of formatting characters.
C10_Witness ==
    /\ greetArg = <<"{", "}", "%">>
    /\ Len(greetRet) = 1

----------------------------------------------------------------------------
(* The dialog surface *)

\* What tells two dialogs apart on screen besides their text.
Signature(d) == <<d.title, d.kind, d.buttons>>

\* The call site (match arm) that showed the k-th dialog of flow f.
SiteOf(f, k) ==
    IF k = 1
        THEN (CASE f.updater.tag = "Err" -> "unavailable"
                [] f.check.tag = "Some" -> "available"
                [] f.check.tag = "None" -> "no_updates"
                [] OTHER -> "check_error")
        ELSE (IF f.install.tag = "Err" THEN "install_error" ELSE "complete")

ErrorSites == {"unavailable", "check_error", "install_error"}

\* Every dialog shown so far, with the site that showed it.
ShownDialogs ==
    UNION {{[site |-> SiteOf(flows[i], k), dialog |-> flows[i].dialogs[k]] :
                k \in DOMAIN flows[i].dialogs} : i \in DOMAIN flows}

\* The dialogs the six blocking_show call sites can put up.
DialogSurface ==
    {UpdateAvailableDialog(v) : v \in Versions}
    \cup {InstallErrorDialog(e) : e \in Reasons}
    \cup {UpdateCompleteDialog, NoUpdatesDialog}
    \cup {CheckErrorDialog(e) : e \in Reasons}
    \cup {UpdaterUnavailableDialog(e) : e \in Reasons}

FourSignatures ==
    {<<"Update Available", "Info", "OkCancel">>,
     <<"Update Complete", "Info", "Ok">>,
     <<"No Updates", "Info", "Ok">>,
     <<"Update Error", "Error", "Ok">>}

\* C11 (as stated): the dialogs of the surface are distinguished from one
\* another by title, icon class and button set, five in all: dialogs shown
\* by different call sites never agree in all three.
C11_Original_SitesDistinguishable ==
    \A a, b \in ShownDialogs :
        a.site # b.site => Signature(a.dialog) # Signature(b.dialog)

\* C11 (amended): every dialog shown has one of exactly four
\* title / icon-class / button-set combinations; dialogs of different call
\* sites agree in all three exactly when both are error dialogs, which
\* share "Update Error", the error icon and the acknowledge-only button and
\* differ in their message text.
C11_FourDistinguishableDialogs ==
    /\ Cardinality(FourSignatures) = 4
    /\ {Signature(d) : d \in DialogSurface} = FourSignatures
    /\ \A a \in ShownDialogs :
        /\ a.dialog \in DialogSurface
        /\ Signature(a.dialog) \in FourSignatures
        /\ a.site \in ErrorSites <=> a.dialog.title = "Update Error"
    /\ \A a, b \in ShownDialogs :
        a.site # b.site =>
            /\ Signature(a.dialog) = Signature(b.dialog)
                   <=> (a.site \in ErrorSites /\ b.site \in ErrorSites)
            /\ a.dialog.message # b.dialog.message

\* Two flows show error dialogs of different call sites for the same
\* reason: same title, icon and buttons, different text.
C11_Witness ==
    /\ Len(flows) = 2
    /\ flows[1].pc = "dlg_unavailable"
    /\ flows[2].pc = "dlg_check_error"
    /\ flows[1].updater.val = flows[2].check.val
    /\ Signature(flows[1].dialogs[1]) = Signature(flows[2].dialogs[1])
    /\ flows[1].dialogs[1].message # flows[2].dialogs[1].message

----------------------------------------------------------------------------
(* Setup *)

\* C12: a failing setup step is fatal: the closure returns the error at
\* once, the steps after it are skipped, no menu is installed and the app
\* aborts instead of running; a menu is installed only when every step
\* before it succeeded, and it is the submenus "Angular Momentum", "Edit",
\* "Window" in that order.
C12_SetupFailureFatal ==
    /\ setup.failures > 0 =>
        /\ setup.failures = 1
        /\ setup.result.tag = "Err"
    /\ setup.result.tag = "Err" =>
        /\ setup.installed = <<>>
        /\ setup.pc <= Len(SetupProgram)
        /\ Len(setup.items) + Len(setup.submenus) + Len(setup.menu) = setup.pc - 1
        /\ ~ENABLED SetupStepSucceeds
        /\ ~ENABLED RunStarts
        /\ setup.app \in {"starting", "aborted"}
        /\ setup.app = "starting" => ENABLED RunAborts
    /\ setup.app = "aborted" => setup.result.tag = "Err"
    /\ setup.installed # <<>> =>
        /\ setup.failures = 0
        /\ setup.pc = Len(SetupProgram) + 1
        /\ Len(setup.installed[1]) = 3
        /\ [k \in 1..3 |-> setup.installed[1][k].title]
               = <<"Angular Momentum", "Edit", "Window">>
    /\ setup.app = "running" => setup = SetupCompleted

\* Startup aborted because installing the finished menu failed.
C12_Witness ==
    /\ setup.app = "aborted"
    /\ setup.pc = Len(SetupProgram)
    /\ setup.menu # <<>>
    /\ setup.installed = <<>>

----------------------------------------------------------------------------
(* Order of the steps of a flow *)

TxtVersion == <<"V", "e", "r", "s", "i", "o", "n", " ">>

\* C13: the steps of a flow come in the order acquire, check, confirmation
\* dialog, download-and-install, result dialog, each starting only after
\* the one before has returned: a check only after the updater was
\* acquired, the confirmation dialog only after the check returned an
\* update (and naming its version), an install only after that dialog
\* returned confirmed, a result dialog only after the install returned; and
\* a flow shows at most two dialogs.
C13_StepsInOrder ==
    \A i \in DOMAIN flows :
        LET f == flows[i] IN
        /\ f.pc = "spawned" =>
            (f.acquires = 0 /\ f.updater = Pending)
        /\ f.checks >= 1 =>
            (f.acquires = 1 /\ f.updater.tag = "Ok")
        /\ f.pc = "checking" =>
            (f.checks = 1 /\ f.check = Pending /\ f.dialogs = <<>>)
        /\ f.check # Pending => f.checks = 1
        /\ f.pc = "dlg_available" =>
            (f.check.tag = "Some" /\ f.confirmed = <<>> /\ f.installs = 0)
        /\ f.confirmed # <<>> =>
            /\ f.check.tag = "Some"
            /\ f.dialogs[1].title = "Update Available"
            /\ f.dialogs[1].buttons = "OkCancel"
            /\ SubSeq(f.dialogs[1].message, 1, 8 + Len(f.check.val))
                   = TxtVersion \o f.check.val
        /\ f.installs >= 1 =>
            (f.check.tag = "Some" /\ f.confirmed = <<TRUE>>)
        /\ f.pc = "installing" =>
            (f.installs = 1 /\ f.install = Pending /\ Len(f.dialogs) = 1)
        /\ f.install # Pending => f.installs = 1
        /\ Len(f.dialogs) = 2 =>
            (f.install # Pending /\ f.dialogs[1].title = "Update Available")
        /\ Len(f.dialogs) <= 2

\* A confirmed flow whose install has failed and whose second dialog is up.
C13_Witness ==
    \E i \in DOMAIN flows :
        /\ flows[i].pc = "dlg_install_error"
        /\ flows[i].installs = 1
        /\ Len(flows[i].dialogs) = 2

====
